---- MODULE Spec2Model ----
(***************************************************************************)
(* structlog-sentry: SentryProcessor (src/structlog_sentry/__init__.py).   *)
(*                                                                         *)
(* A processor instance is constructed once (Init) and then called, one    *)
(* log record at a time (Call).  A call snapshots the record, pops         *)
(* sentry_skip, decides whether to report, and hands an error event        *)
(* and/or a breadcrumb to the Sentry hub.                                  *)
(*                                                                         *)
(* Encoding of Python values                                               *)
(*   dict            a function whose DOMAIN is the set of keys present    *)
(*   None (a str)    NoneVal                                               *)
(*   logger names    sequences of one-character strings, so that fnmatch   *)
(*                   can be computed; None is NoneName, "" is << >>        *)
(*   objects         [isNone, hasName, name] (a logger, a LogRecord)       *)
(*   exc_info        [kind, b, type]: kind is "none", "bool", "exc" (an    *)
(*                   exception instance) or "tuple" (a 3-tuple); type is   *)
(*                   the exception's type name, NoneVal in (None,)*3       *)
(***************************************************************************)
EXTENDS Integers, Sequences, FiniteSets, TLC

VARIABLES
    self,                 \* the processor's configuration (read-only after __init__)
    original_event_dict,  \* self._original_event_dict
    events,               \* the hub's log of capture_event(event, hint) calls
    breadcrumbs,          \* the hub's log of add_breadcrumb(event, hint) calls
    calls                 \* history: one entry per call of the processor

vars == <<self, original_event_dict, events, breadcrumbs, calls>>

\* The number of calls made on one processor instance.
MaxCalls == 2

-----------------------------------------------------------------------------
(* Python values *)

NoneVal == "<None>"
NoneName == <<"<None>">>
NoneObj == [isNone |-> TRUE, hasName |-> FALSE, name |-> NoneName]
NoneDict == ("<None>" :> TRUE)
NoneExcInfo == [kind |-> "none", b |-> FALSE, type |-> NoneVal]
EmptyDict == [k \in {} |-> NoneVal]

Obj(name) == [isNone |-> FALSE, hasName |-> TRUE, name |-> name]
BoolExcInfo(b) == [kind |-> "bool", b |-> b, type |-> NoneVal]
ExcInstance(type) == [kind |-> "exc", b |-> FALSE, type |-> type]
ExcTuple(type) == [kind |-> "tuple", b |-> FALSE, type |-> type]

\* dict.get(k, default), dict.pop(k, default)'s remainder, d[k] = v
Get(d, k, default) == IF k \in DOMAIN d THEN d[k] ELSE default
Without(d, k) == [x \in DOMAIN d \ {k} |-> d[x]]
Put(d, k, v) == [x \in DOMAIN d \cup {k} |-> IF x = k THEN v ELSE d[x]]
\* {key: d[key] for key in keys if key in d}
Select(d, keys) == [x \in DOMAIN d \cap keys |-> d[x]]

\* truth value of a str-or-None logger name, and of an object
TruthyName(n) == n # NoneName /\ n # << >>
TruthyObj(o) == ~o.isNone

-----------------------------------------------------------------------------
(* The logging module *)

\* str.upper() on the level names in use
Upper(s) ==
    CASE s = "debug" -> "DEBUG"
      [] s = "info" -> "INFO"
      [] s = "warning" -> "WARNING"
      [] s = "Error" -> "ERROR"
      [] s = "critical" -> "CRITICAL"
      [] s = "CUSTOM_LEVEL" -> "CUSTOM_LEVEL"
      [] s = "bogus" -> "BOGUS"

\* The integer attributes of the logging module that getattr(logging, NAME) finds.
LoggingAttrs == [DEBUG |-> 10, INFO |-> 20, WARNING |-> 30, ERROR |-> 40, CRITICAL |-> 50]

\* logging's name -> level registry after logging.addLevelName(logging.DEBUG,
\* "CUSTOM_LEVEL"): addLevelName fills the registry, it sets no module attribute.
LevelNameRegistry == LoggingAttrs @@ ("CUSTOM_LEVEL" :> LoggingAttrs.DEBUG)

-----------------------------------------------------------------------------
(* fnmatch and the ignored loggers *)

\* fnmatch(name, pat): "*" matches any run, "?" any one character, anything
\* else itself (case-sensitive).  No pattern in use has a character class.
RECURSIVE fnmatch(_, _)
fnmatch(name, pat) ==
    IF pat = << >> THEN name = << >>
    ELSE IF Head(pat) = "*"
         THEN \/ fnmatch(name, Tail(pat))
              \/ (name # << >> /\ fnmatch(Tail(name), pat))
    ELSE /\ name # << >>
         /\ (Head(pat) = "?" \/ Head(pat) = Head(name))
         /\ fnmatch(Tail(name), Tail(pat))

\* Logger names: "t.b" is test.blacklisted, "t.w" test.whitelisted, "s.e"
\* sentry_sdk.errors.
TestBlacklisted == <<"t", ".", "b">>
TestBlacklistedChild == <<"t", ".", "b", ".", "x">>
TestWhitelisted == <<"t", ".", "w">>
SdkErrors == <<"s", ".", "e">>

\* sentry_sdk.integrations.logging._IGNORED_LOGGERS
IGNORED_LOGGERS == {SdkErrors}

-----------------------------------------------------------------------------
(* _figure_out_exc_info and sys.exc_info() *)

\* sys.exc_info() while `handling` is the exception being handled (NoneVal: none)
SysExcInfo(handling) == ExcTuple(handling)

\* A variant that hands a true exc_info on as it is, without sys.exc_info()
FigureOutExcInfoNoLookup(v, handling) ==
    IF v.kind = "exc" THEN ExcTuple(v.type)
    ELSE v

FigureOutExcInfo(v, handling) ==
    IF v.kind = "exc" THEN ExcTuple(v.type)
    ELSE IF v.kind = "tuple" THEN v
    ELSE IF v.kind = "bool" /\ v.b THEN SysExcInfo(handling)
    ELSE v

\* exc_info and exc_info != (None, None, None)
HasExcInfo(exc_info) ==
    /\ exc_info.kind = "tuple"
    /\ exc_info # ExcTuple(NoneVal)

\* sentry_sdk.utils.event_from_exception(exc_info): the event skeleton carries
\* the exception's type name, the hint carries exc_info.
EventFromException(exc_info) ==
    [event |-> [exception |-> exc_info.type, level |-> "error"],
     hint |-> [exc_info |-> exc_info]]

-----------------------------------------------------------------------------
(* SentryProcessor *)

GetLoggerName(logger, event_dict) ==
    LET record == Get(event_dict, "_record", NoneObj)
        l_name == Get(event_dict, "logger", NoneName)
        logger_name ==
            IF TruthyName(l_name) THEN l_name
            ELSE IF TruthyObj(record) /\ record.hasName THEN record.name
            ELSE NoneName
    IN  IF ~TruthyName(logger_name) /\ TruthyObj(logger) /\ logger.hasName
        THEN logger.name
        ELSE logger_name

\* event["contexts"], lines 115-116
EventContexts(slf, original, event) ==
    IF slf.as_context
    THEN Put(event, "contexts", [structlog |-> original])
    ELSE event

\* A variant that takes the "__all__" tags from the record after the pop
EventTagsAllFromLive(slf, original, event_dict, event) ==
    IF slf.tag_keys.kind = "all" THEN Put(event, "tags", event_dict)
    ELSE IF slf.tag_keys.kind = "list"
    THEN Put(event, "tags", Select(event_dict, slf.tag_keys.keys))
    ELSE event

\* event["tags"], lines 117-122
EventTags(slf, original, event_dict, event) ==
    IF slf.tag_keys.kind = "all" THEN Put(event, "tags", original)
    ELSE IF slf.tag_keys.kind = "list"
    THEN Put(event, "tags", Select(event_dict, slf.tag_keys.keys))
    ELSE event

GetEventAndHint(slf, original, event_dict, handling) ==
    LET exc_info == FigureOutExcInfo(Get(event_dict, "exc_info", NoneExcInfo), handling)
        eh == IF HasExcInfo(exc_info)
              THEN EventFromException(exc_info)
              ELSE [event |-> EmptyDict, hint |-> EmptyDict]
        e1 == Put(eh.event, "message", Get(event_dict, "event", NoneVal))
        e2 == Put(e1, "level", Get(event_dict, "level", NoneVal))
        e3 == IF "logger" \in DOMAIN event_dict
              THEN Put(e2, "logger", event_dict["logger"])
              ELSE e2
        e4 == EventContexts(slf, original, e3)
        e5 == EventTags(slf, original, event_dict, e4)
    IN  [event |-> e5, hint |-> eh.hint]

GetBreadcrumbAndHint(event_dict) ==
    IF "event" \notin DOMAIN event_dict
    THEN [raised |-> TRUE, event |-> EmptyDict, hint |-> EmptyDict]  \* KeyError
    ELSE [raised |-> FALSE,
          event |-> [type |-> "log",
                     level |-> Get(event_dict, "level", NoneVal),
                     category |-> Get(event_dict, "logger", NoneName),
                     message |-> event_dict["event"],
                     timestamp |-> Get(event_dict, "timestamp", NoneVal),
                     data |-> EmptyDict],
          hint |-> [log_record |-> event_dict]]

\* _can_record: the verdict and the record as it leaves
CanRecord(slf, logger, event_dict) ==
    LET logger_name == GetLoggerName(logger, event_dict)
        hit == /\ TruthyName(logger_name)
               /\ \E ignored_logger \in IGNORED_LOGGERS \cup slf.ignored_loggers :
                      fnmatch(logger_name, ignored_logger)
    IN  [ok |-> ~hit,
         event_dict |-> IF hit /\ slf.verbose
                        THEN Put(event_dict, "sentry", "ignored")
                        ELSE event_dict]

\* Hub.capture_event(event, hint=hint) of the hub the processor holds: a hub with
\* a client returns the event id, one without returns None, a failing one raises.
CaptureEvent(hub) ==
    CASE hub = "client" -> [raised |-> FALSE, sid |-> "sid"]
      [] hub = "noclient" -> [raised |-> FALSE, sid |-> NoneVal]
      [] hub = "failing" -> [raised |-> TRUE, sid |-> NoneVal]

\* Hub.add_breadcrumb(event, hint=hint)
AddBreadcrumb(hub) == [raised |-> hub = "failing"]

\* A variant that pops exc_info from the record when it builds the event
HandleEventPopsExcInfo(slf, original, event_dict, handling) ==
    LET eh == GetEventAndHint(slf, original, event_dict, handling)
        r == CaptureEvent(slf.hub)
        d0 == Without(event_dict, "exc_info")
        d1 == IF r.sid # NoneVal THEN Put(d0, "sentry_id", r.sid) ELSE d0
        d2 == IF slf.verbose THEN Put(d1, "sentry", "sent") ELSE d1
    IN  [event_dict |-> IF r.raised THEN d0 ELSE d2,
         sent |-> <<[event |-> eh.event, hint |-> eh.hint]>>]

\* _handle_event: the record as it leaves and the capture_event calls made.
\* capture_internal_exceptions() swallows whatever the block raises.
HandleEvent(slf, original, event_dict, handling) ==
    LET eh == GetEventAndHint(slf, original, event_dict, handling)
        r == CaptureEvent(slf.hub)
        d1 == IF r.sid # NoneVal THEN Put(event_dict, "sentry_id", r.sid) ELSE event_dict
        d2 == IF slf.verbose THEN Put(d1, "sentry", "sent") ELSE d1
    IN  [event_dict |-> IF r.raised THEN event_dict ELSE d2,
         sent |-> <<[event |-> eh.event, hint |-> eh.hint]>>]

\* _handle_breadcrumb: the add_breadcrumb calls made
HandleBreadcrumb(slf, event_dict) ==
    LET bh == GetBreadcrumbAndHint(event_dict)
    IN  IF bh.raised THEN << >>
        ELSE <<[event |-> bh.event, hint |-> bh.hint]>>

\* level = getattr(logging, event_dict["level"].upper())
LevelOf(event_dict) ==
    IF "level" \notin DOMAIN event_dict
    THEN [raised |-> TRUE, exc |-> "KeyError", level |-> 0]
    ELSE IF Upper(event_dict["level"]) \notin DOMAIN LoggingAttrs
    THEN [raised |-> TRUE, exc |-> "AttributeError", level |-> 0]
    ELSE [raised |-> FALSE, exc |-> NoneVal,
          level |-> LoggingAttrs[Upper(event_dict["level"])]]

\* A variant that does not look at sentry_skip
GateIgnoringSkip(slf, sentry_skip, logger, event_dict) ==
    IF slf.active
    THEN CanRecord(slf, logger, event_dict)
    ELSE [ok |-> FALSE, event_dict |-> event_dict]

\* self.active and not sentry_skip and self._can_record(logger, event_dict):
\* the verdict and the record as it leaves; `and` evaluates _can_record only
\* when the first two operands are true.
Gate(slf, sentry_skip, logger, event_dict) ==
    IF slf.active /\ ~sentry_skip
    THEN CanRecord(slf, logger, event_dict)
    ELSE [ok |-> FALSE, event_dict |-> event_dict]

\* A variant that assigns "skipped" over an outcome already set
SetSkippedAlways(slf, event_dict) ==
    IF slf.verbose /\ Get(event_dict, "sentry", NoneVal) # "sent"
    THEN Put(event_dict, "sentry", "skipped")
    ELSE event_dict

\* verbose: event_dict.setdefault("sentry", "skipped")
SetDefaultSkipped(slf, event_dict) ==
    IF slf.verbose /\ "sentry" \notin DOMAIN event_dict
    THEN Put(event_dict, "sentry", "skipped")
    ELSE event_dict

\* What __call__ returns: the record it was passed ("event_dict"); a copy would
\* be another object.
Returned == "event_dict"

\* __call__ from line 169 on, given what the call reads in
\* self._original_event_dict, the popped sentry_skip and the record after the
\* pop: how the call ends, the record object's contents as the call leaves it,
\* and the calls made on the hub.
Report(slf, original, sentry_skip, logger, d0, handling) ==
    LET cr == Gate(slf, sentry_skip, logger, d0)
        d1 == cr.event_dict
        lv == LevelOf(d1)
        he == IF lv.level >= slf.level
              THEN HandleEvent(slf, original, d1, handling)
              ELSE [event_dict |-> d1, sent |-> << >>]
        d2 == he.event_dict
        hb == IF lv.level >= slf.breadcrumb_level
              THEN HandleBreadcrumb(slf, d2)
              ELSE << >>
    IN  IF ~cr.ok
        THEN [outcome |-> "returned", exc |-> NoneVal,
              ret |-> Returned, event_dict |-> SetDefaultSkipped(slf, d1),
              sent |-> << >>, crumbs |-> << >>]
        ELSE IF lv.raised
        THEN [outcome |-> "raised", exc |-> lv.exc,
              ret |-> NoneVal, event_dict |-> d1,
              sent |-> << >>, crumbs |-> << >>]
        ELSE [outcome |-> "returned", exc |-> NoneVal,
              ret |-> Returned, event_dict |-> SetDefaultSkipped(slf, d2),
              sent |-> he.sent, crumbs |-> hb]

\* __call__(logger, name, event_dict): the whole call, run without another call
\* in between: the snapshot stored at line 166 is the one read back.  The
\* result names the snapshot taken and what Report gives.
ProcessorCall(slf, logger, event_dict, handling) ==
    LET original == event_dict
        sentry_skip == Get(event_dict, "sentry_skip", FALSE)
        d0 == Without(event_dict, "sentry_skip")
        r == Report(slf, original, sentry_skip, logger, d0, handling)
    IN  [original |-> original] @@ r

-----------------------------------------------------------------------------
(* Bounded inputs *)

TagKeysNone == [kind |-> "none", keys |-> {}]
TagKeysAll == [kind |-> "all", keys |-> {}]
TagKeysList == [kind |-> "list", keys |-> {"foo", "sentry_skip", "missing"}]

\* SentryProcessor() with its defaults (lines 37-44), and verbose either way
DefaultConfig(verbose) ==
    [level |-> LoggingAttrs.WARNING, breadcrumb_level |-> LoggingAttrs.INFO,
     active |-> TRUE, as_context |-> TRUE, tag_keys |-> TagKeysNone,
     ignored_loggers |-> {}, verbose |-> verbose, hub |-> "client"]

\* The constructions explored: the defaults with one argument changed.
Configs ==
    UNION {
        LET c == DefaultConfig(v) IN
        {c,
         [c EXCEPT !.level = LoggingAttrs.DEBUG],
         [c EXCEPT !.breadcrumb_level = LoggingAttrs.ERROR],
         [c EXCEPT !.active = FALSE],
         [c EXCEPT !.as_context = FALSE],
         [c EXCEPT !.tag_keys = TagKeysAll],
         [c EXCEPT !.tag_keys = TagKeysList],
         [c EXCEPT !.ignored_loggers = {<<"t", ".", "b", "*">>}],
         [c EXCEPT !.hub = "noclient"],
         [c EXCEPT !.hub = "failing"]}
        : v \in BOOLEAN }

LevelNames == {"debug", "info", "Error", "CUSTOM_LEVEL", "bogus"}

Rec(level) == [level |-> level, event |-> "msg"]

\* (record, logger object, exception being handled) of one call
In(rec, logger, handling) == [rec |-> rec, logger |-> logger, handling |-> handling]

\* levels, with and without the event text
InLevels ==
    {In(r, NoneObj, NoneVal) : r \in {Rec(l) : l \in LevelNames}
                                     \cup {[level |-> l] : l \in {"info", "Error"}}}

\* the sentry_skip flag
InSkip ==
    {In(Rec(l) @@ ("sentry_skip" :> s), Obj(TestBlacklisted), NoneVal) :
        l \in {"debug", "Error"}, s \in BOOLEAN}
    \cup {In(Rec(l) @@ ("sentry_skip" :> TRUE), NoneObj, NoneVal) : l \in {"Error", "bogus"}}

\* where the logger name comes from
InLoggers ==
    {In(Rec("Error") @@ ("logger" :> TestBlacklisted), NoneObj, NoneVal),
     In(Rec("Error") @@ ("logger" :> TestWhitelisted) @@ ("_record" :> Obj(TestBlacklisted)),
        Obj(TestBlacklisted), NoneVal),
     In(Rec("Error") @@ ("logger" :> << >>) @@ ("_record" :> Obj(TestBlacklistedChild)),
        Obj(TestWhitelisted), NoneVal),
     In(Rec("Error") @@ ("_record" :> Obj(<< >>)), Obj(SdkErrors), NoneVal),
     In(Rec("Error") @@ ("_record" :> Obj(TestWhitelisted)), Obj(TestBlacklisted), NoneVal),
     In(Rec("Error"), Obj(TestWhitelisted), NoneVal),
     In(Rec("Error"), [isNone |-> FALSE, hasName |-> FALSE, name |-> NoneName], NoneVal),
     In(Rec("debug"), Obj(SdkErrors), NoneVal),
     In(Rec("CUSTOM_LEVEL"), Obj(TestWhitelisted), NoneVal),
     In(Rec("CUSTOM_LEVEL"), Obj(SdkErrors), NoneVal)}

\* exc_info and the exception being handled
InExc ==
    {In(Rec("Error"), NoneObj, "ZeroDivisionError"),
     In(Rec("Error") @@ ("exc_info" :> BoolExcInfo(TRUE)), NoneObj, NoneVal),
     In(Rec("Error") @@ ("exc_info" :> ExcTuple("KeyError")), NoneObj, NoneVal)}
    \cup {In(Rec("Error") @@ ("exc_info" :> x), NoneObj, "ZeroDivisionError") :
            x \in {BoolExcInfo(TRUE), BoolExcInfo(FALSE), NoneExcInfo,
                   ExcInstance("ValueError"), ExcTuple(NoneVal)}}

\* further keys of the record
InExtra ==
    {In(Rec(l) @@ x, NoneObj, NoneVal) :
        l \in {"info", "Error"},
        x \in {("foo" :> "bar"),
               ("timestamp" :> "ts"),
               ("foo" :> "bar") @@ ("sentry_skip" :> FALSE),
               ("foo" :> "bar") @@ ("timestamp" :> "ts") @@ ("logger" :> TestWhitelisted)}}

Inputs == InLevels \cup InSkip \cup InLoggers \cup InExc \cup InExtra

-----------------------------------------------------------------------------
(* The state machine *)

Init ==
    /\ self \in Configs
    /\ original_event_dict = NoneDict
    /\ events = << >>
    /\ breadcrumbs = << >>
    /\ calls = << >>

Call(in) ==
    /\ Len(calls) < MaxCalls
    /\ LET r == ProcessorCall(self, in.logger, in.rec, in.handling)
       IN  /\ original_event_dict' = r.original
           /\ events' = events \o r.sent
           /\ breadcrumbs' = breadcrumbs \o r.crumbs
           /\ calls' = Append(calls,
                  [in |-> in, outcome |-> r.outcome, exc |-> r.exc, ret |-> r.ret,
                   event_dict |-> r.event_dict, original |-> r.original,
                   ev0 |-> Len(events), ev1 |-> Len(events) + Len(r.sent),
                   bc0 |-> Len(breadcrumbs), bc1 |-> Len(breadcrumbs) + Len(r.crumbs)])
    /\ UNCHANGED self

Next == \E in \in Inputs : Call(in)

Spec == Init /\ [][Next]_vars

-----------------------------------------------------------------------------
(* Concurrent calls on one processor instance *)

\* Calls made from several threads, each on its own record.  A call runs in two
\* steps between which another thread may run: Enter is lines 166-167 (store
\* the snapshot in self._original_event_dict, pop sentry_skip), Finish is lines
\* 169-181, which reads self._original_event_dict back at lines 116 and 118.
\* An entry of calls is a call in flight (pc = "entered") or over (pc = "done").

ConcInputs == InLevels \cup InExtra

ConcInit ==
    /\ self \in Configs
    /\ original_event_dict = NoneDict
    /\ events = << >>
    /\ breadcrumbs = << >>
    /\ calls = << >>

Enter(in) ==
    /\ Len(calls) < MaxCalls
    /\ original_event_dict' = in.rec
    /\ calls' = Append(calls,
           [in |-> in, pc |-> "entered", outcome |-> "running", exc |-> NoneVal,
            ret |-> NoneVal, sentry_skip |-> Get(in.rec, "sentry_skip", FALSE),
            event_dict |-> Without(in.rec, "sentry_skip"),
            ev0 |-> 0, ev1 |-> 0, bc0 |-> 0, bc1 |-> 0])
    /\ UNCHANGED <<self, events, breadcrumbs>>

Finish(i) ==
    /\ calls[i].pc = "entered"
    /\ LET c == calls[i]
           r == Report(self, original_event_dict, c.sentry_skip, c.in.logger,
                       c.event_dict, c.in.handling)
       IN  /\ events' = events \o r.sent
           /\ breadcrumbs' = breadcrumbs \o r.crumbs
           /\ calls' = [calls EXCEPT ![i] =
                  [c EXCEPT !.pc = "done", !.outcome = r.outcome, !.exc = r.exc,
                            !.ret = r.ret, !.event_dict = r.event_dict,
                            !.ev0 = Len(events), !.ev1 = Len(events) + Len(r.sent),
                            !.bc0 = Len(breadcrumbs),
                            !.bc1 = Len(breadcrumbs) + Len(r.crumbs)]]
    /\ UNCHANGED <<self, original_event_dict>>

ConcNext ==
    \/ \E in \in ConcInputs : Enter(in)
    \/ \E i \in 1..Len(calls) : Finish(i)

SpecConc == ConcInit /\ [][ConcNext]_vars

-----------------------------------------------------------------------------
(* What the properties speak of *)

\* The capture_event and add_breadcrumb calls made during call c
EventsOf(c) == SubSeq(events, c.ev0 + 1, c.ev1)
CrumbsOf(c) == SubSeq(breadcrumbs, c.bc0 + 1, c.bc1)

\* The record the call returned
ReturnedRecord(c) == IF c.ret = "event_dict" THEN c.event_dict ELSE c.original

\* sentry_skip is present and true
SkipSet(rec) == Get(rec, "sentry_skip", FALSE)

\* The level's rank on logging's scale, custom names included
HasRank(rec) == "level" \in DOMAIN rec /\ Upper(rec.level) \in DOMAIN LevelNameRegistry
Rank(rec) == LevelNameRegistry[Upper(rec.level)]

\* The resolved logger name: the record's logger key if truthy, else the name
\* of the embedded _record, else the name of the logger object, else None
ResolvedName(in) ==
    IF "logger" \in DOMAIN in.rec /\ TruthyName(in.rec["logger"]) THEN in.rec["logger"]
    ELSE IF /\ "_record" \in DOMAIN in.rec
            /\ in.rec["_record"].hasName
            /\ TruthyName(in.rec["_record"].name)
         THEN in.rec["_record"].name
    ELSE IF in.logger.hasName THEN in.logger.name
    ELSE NoneName

\* The resolved name matches a pattern of ignore_loggers or of the default set
IsIgnored(in) ==
    /\ TruthyName(ResolvedName(in))
    /\ \E p \in self.ignored_loggers \cup IGNORED_LOGGERS : fnmatch(ResolvedName(in), p)

\* Active classifier, sentry_skip absent or false, logger not ignored
Eligible(in) == self.active /\ ~SkipSet(in.rec) /\ ~IsIgnored(in)

Outcome(c) == Get(c.event_dict, "sentry", NoneVal)

-----------------------------------------------------------------------------
(* C1 *)

\* C1: every call on an active classifier, with sentry_skip absent or false, a
\* logger that is not ignored and a level rank at or above the error threshold,
\* submits exactly one error event, whose message is the record's event value
\* and whose level is the record's level value.
C1_ExactlyOneErrorEvent ==
    \A i \in 1..Len(calls) :
        LET c == calls[i] IN
        (Eligible(c.in) /\ HasRank(c.in.rec) /\ Rank(c.in.rec) >= self.level)
        => /\ Len(EventsOf(c)) = 1
           /\ EventsOf(c)[1].event["message"] = Get(c.in.rec, "event", NoneVal)
           /\ EventsOf(c)[1].event["level"] = c.in.rec["level"]

\* C1 on the level names that are attributes of the logging module: the call
\* also returns.
C1_OnLoggingAttrs ==
    \A i \in 1..Len(calls) :
        LET c == calls[i] IN
        ( /\ Eligible(c.in) /\ "level" \in DOMAIN c.in.rec
          /\ Upper(c.in.rec["level"]) \in DOMAIN LoggingAttrs
          /\ Rank(c.in.rec) >= self.level )
        => /\ c.outcome = "returned"
           /\ Len(EventsOf(c)) = 1
           /\ EventsOf(c)[1].event["message"] = Get(c.in.rec, "event", NoneVal)
           /\ EventsOf(c)[1].event["level"] = c.in.rec["level"]

-----------------------------------------------------------------------------
(* C2 *)

\* C2: when the classifier is inactive or the record carries sentry_skip = true,
\* the call submits neither an error event nor a breadcrumb, whatever the level
\* and the logger, and returns; the outcome is never "sent", and is "skipped"
\* if verbose is on.
C2_InactiveOrSkipSubmitsNothing ==
    \A i \in 1..Len(calls) :
        LET c == calls[i] IN
        (~self.active \/ SkipSet(c.in.rec))
        => /\ EventsOf(c) = << >>
           /\ CrumbsOf(c) = << >>
           /\ c.outcome = "returned"
           /\ Outcome(c) # "sent"
           /\ self.verbose => ReturnedRecord(c)["sentry"] = "skipped"

\* A verbose active classifier skipped a record at ERROR, from an ignored
\* logger, because it carries sentry_skip = true.
C2_Witness ==
    \E i \in 1..Len(calls) :
        /\ self.active /\ self.verbose
        /\ SkipSet(calls[i].in.rec)
        /\ HasRank(calls[i].in.rec)
        /\ Rank(calls[i].in.rec) >= self.level
        /\ self.ignored_loggers # {} /\ calls[i].in.logger = Obj(TestBlacklisted)
        /\ Outcome(calls[i]) = "skipped"

-----------------------------------------------------------------------------
(* C3 *)

\* C3: of two calls on one verbose classifier at the same level at or above the
\* error threshold, the one whose resolved logger name matches an ignore pattern
\* submits nothing and has outcome "ignored", the one whose resolved name matches
\* none submits its error event and has another outcome; a call with no
\* resolvable logger name is never ignored.
C3_IgnoredLoggerOnly ==
    /\ \A i, j \in 1..Len(calls) :
        LET a == calls[i]
            b == calls[j]
        IN  ( /\ self.verbose /\ self.active
              /\ ~SkipSet(a.in.rec) /\ ~SkipSet(b.in.rec)
              /\ a.in.rec["level"] = b.in.rec["level"]
              /\ HasRank(a.in.rec) /\ Rank(a.in.rec) >= self.level
              /\ IsIgnored(a.in) /\ ~IsIgnored(b.in) )
            => /\ EventsOf(a) = << >> /\ CrumbsOf(a) = << >>
               /\ Outcome(a) = "ignored"
               /\ Len(EventsOf(b)) = 1
               /\ Outcome(b) # "ignored"
    /\ \A i \in 1..Len(calls) :
        ~TruthyName(ResolvedName(calls[i].in)) => Outcome(calls[i]) # "ignored"

\* C3's two calls at a level name that is an attribute of the logging module
C3_OnLoggingAttrs ==
    \A i, j \in 1..Len(calls) :
        LET a == calls[i]
            b == calls[j]
        IN  ( /\ self.verbose /\ self.active
              /\ ~SkipSet(a.in.rec) /\ ~SkipSet(b.in.rec)
              /\ a.in.rec["level"] = b.in.rec["level"]
              /\ Upper(a.in.rec["level"]) \in DOMAIN LoggingAttrs
              /\ Rank(a.in.rec) >= self.level
              /\ IsIgnored(a.in) /\ ~IsIgnored(b.in) )
            => /\ EventsOf(a) = << >> /\ CrumbsOf(a) = << >>
               /\ Outcome(a) = "ignored"
               /\ Len(EventsOf(b)) = 1
               /\ Outcome(b) # "ignored"

-----------------------------------------------------------------------------
(* C4 *)

-----------------------------------------------------------------------------
(* C5 *)

\* C5: after a call, the record object holds every key it held before except
\* sentry_skip, each with its value, exc_info included; the keys added are at
\* most sentry_id and, in verbose mode only, sentry; and a call that returns,
\* returns the object it was passed.
C5_RecordKeysPreserved ==
    \A i \in 1..Len(calls) :
        LET c == calls[i]
            before == c.in.rec
            after == c.event_dict
        IN  /\ c.outcome = "returned" => c.ret = "event_dict"
            /\ \A k \in DOMAIN before \ {"sentry_skip"} :
                  k \in DOMAIN after /\ after[k] = before[k]
            /\ "sentry_skip" \notin DOMAIN after
            /\ DOMAIN after \ DOMAIN before
                  \subseteq {"sentry_id"} \cup (IF self.verbose THEN {"sentry"} ELSE {})

\* A record carrying exc_info was sent and came back with sentry_id added, and
\* a record carrying sentry_skip was processed.
C5_Witness ==
    \E i, j \in 1..Len(calls) :
        /\ "exc_info" \in DOMAIN calls[i].in.rec
        /\ calls[i].outcome = "returned"
        /\ "sentry_id" \in DOMAIN calls[i].event_dict
        /\ "exc_info" \in DOMAIN calls[i].event_dict
        /\ "sentry_skip" \in DOMAIN calls[j].in.rec
        /\ Len(EventsOf(calls[j])) = 1

-----------------------------------------------------------------------------
(* C6 *)

\* C6 as claimed: an error event submitted while an exception is being handled,
\* for a record whose exc_info is absent or true, carries exception information
\* whose type name is that of the exception being handled.
C6_ExcInfoAbsentOrTrue ==
    \A i \in 1..Len(calls) :
        LET c == calls[i] IN
        \A n \in 1..Len(EventsOf(c)) :
            ( /\ c.in.handling # NoneVal
              /\ \/ "exc_info" \notin DOMAIN c.in.rec
                 \/ c.in.rec["exc_info"] = BoolExcInfo(TRUE) )
            => /\ "exception" \in DOMAIN EventsOf(c)[n].event
               /\ EventsOf(c)[n].event["exception"] = c.in.handling

\* C6 as amended: an error event submitted while an exception is being handled
\* carries exception information with the handled exception's type name when the
\* record's exc_info is true, and no exception information when exc_info is
\* absent.
C6_ExcInfoTrueOnly ==
    \A i \in 1..Len(calls) :
        LET c == calls[i] IN
        \A n \in 1..Len(EventsOf(c)) :
            c.in.handling # NoneVal
            => /\ ("exc_info" \in DOMAIN c.in.rec /\ c.in.rec["exc_info"] = BoolExcInfo(TRUE))
                  => /\ "exception" \in DOMAIN EventsOf(c)[n].event
                     /\ EventsOf(c)[n].event["exception"] = c.in.handling
               /\ "exc_info" \notin DOMAIN c.in.rec
                  => "exception" \notin DOMAIN EventsOf(c)[n].event

\* An event was submitted for a record with exc_info = true while
\* ZeroDivisionError was being handled, and carries that type name.
C6_Witness ==
    \E i \in 1..Len(calls) :
        /\ calls[i].in.handling = "ZeroDivisionError"
        /\ "exc_info" \in DOMAIN calls[i].in.rec
        /\ calls[i].in.rec["exc_info"] = BoolExcInfo(TRUE)
        /\ Len(EventsOf(calls[i])) = 1
        /\ EventsOf(calls[i])[1].event["exception"] = "ZeroDivisionError"

-----------------------------------------------------------------------------
(* C7 *)

-----------------------------------------------------------------------------
(* C8 *)

\* C8: the data of every breadcrumb submitted holds none of event, level,
\* logger, timestamp, and holds every other key of the record as it was at
\* entry with its value.  (This processor takes no breadcrumb exclusions.)
C8_BreadcrumbData ==
    \A i \in 1..Len(calls) :
        LET c == calls[i] IN
        \A n \in 1..Len(CrumbsOf(c)) :
            CrumbsOf(c)[n].event["data"] =
                [k \in DOMAIN c.in.rec \ {"event", "level", "logger", "timestamp"}
                    |-> c.in.rec[k]]

-----------------------------------------------------------------------------
(* C9 *)

\* C9: a level is routed by the rank its name has on logging's scale, looked up
\* case-insensitively and including names registered with addLevelName: the
\* call returns, with an error event submitted exactly when the rank is at or
\* above the error threshold; a name with no rank is raised to the caller.
C9_LevelResolution ==
    \A i \in 1..Len(calls) :
        LET c == calls[i] IN
        Eligible(c.in)
        => IF HasRank(c.in.rec)
           THEN /\ c.outcome = "returned"
                /\ Len(EventsOf(c)) = (IF Rank(c.in.rec) >= self.level THEN 1 ELSE 0)
           ELSE c.outcome = "raised"

-----------------------------------------------------------------------------
(* C10 *)

\* C10: when the hub raises on the error event of a call, the call still
\* returns the record, and a breadcrumb is submitted for it whenever the level
\* rank is at or above the breadcrumb threshold; the hub raising on the
\* breadcrumb is swallowed too.
C10_FailureContained ==
    \A i \in 1..Len(calls) :
        LET c == calls[i] IN
        (self.hub = "failing" /\ Len(EventsOf(c)) > 0)
        => /\ c.outcome = "returned"
           /\ ReturnedRecord(c) = c.event_dict
           /\ Rank(c.in.rec) >= self.breadcrumb_level => Len(CrumbsOf(c)) = 1

\* C10 for records that have an event key
C10_WithEventKey ==
    \A i \in 1..Len(calls) :
        LET c == calls[i] IN
        (self.hub = "failing" /\ Len(EventsOf(c)) > 0 /\ "event" \in DOMAIN c.in.rec)
        => /\ c.outcome = "returned"
           /\ ReturnedRecord(c) = c.event_dict
           /\ Rank(c.in.rec) >= self.breadcrumb_level => Len(CrumbsOf(c)) = 1

-----------------------------------------------------------------------------
(* C11 *)

\* C11: whatever the interleaving of the calls made on one classifier, each on
\* its own record, the context container and the "__all__" tags of every error
\* event a call submits are that call's own record as it was at entry.
C11_OwnSnapshot ==
    \A i \in 1..Len(calls) :
        LET c == calls[i] IN
        \A n \in 1..Len(EventsOf(c)) :
            LET e == EventsOf(c)[n].event IN
            /\ self.as_context => e["contexts"] = [structlog |-> c.in.rec]
            /\ self.tag_keys.kind = "all" => e["tags"] = c.in.rec

====
